---- MODULE Spec2Model ----
(***************************************************************************)
(* VMX enablement and VMCS lifecycle of hypervisor-rs (Intel VT-x core).   *)
(*                                                                         *)
(* One logical processor runs Vcpu::virtualize_cpu, which drives the VMX   *)
(* session (Vmx::new, Vmx::init), Vmcs::setup, the guest/host/control      *)
(* population and launch_vm.  Every function of the source is one action;  *)
(* pc[p] is the position of processor p inside virtualize_cpu.             *)
(*                                                                         *)
(* 64-bit and 32-bit register values are sets of bit positions, so that    *)
(* the bitwise operations of the source keep their width.  16-bit segment  *)
(* selectors are naturals below 2^16.                                      *)
(***************************************************************************)
EXTENDS Integers, Sequences, FiniteSets

VARIABLES
    is_virtualized,   \* Vcpu.is_virtualized, per processor
    pc,               \* position of the processor inside virtualize_cpu
    result,           \* what the last virtualize_cpu call returned
    calls,            \* number of virtualize_cpu calls made on the Vcpu
    callStart,        \* length of the instruction trace when the call began
    context,          \* the Context captured for the call in progress
    vmx_on,           \* processor is in VMX operation (VMXON succeeded)
    current,          \* the processor's current-VMCS pointer (0: none)
    vmcs,             \* the VMCS region owned by the processor's session
    guest_registers,  \* software shadow of the registers outside the VMCS
    setup_ret,        \* what the last Vmcs::setup returned
    setup_pa,         \* vmcs_region_physical_address of the last Vmcs::setup (-1: none)
    rev_at_clear,     \* <<revision_id of the region>> at the moment setup issued VMCLEAR
    trace,            \* privileged instructions issued by the processor
    hw                \* capability and register fixture of the machine

vars == <<is_virtualized, pc, result, calls, callStart, context, vmx_on,
          current, vmcs, guest_registers, setup_ret, setup_pa, rev_at_clear, trace, hw>>

(***************************************************************************)
(* Bounds of the model.                                                    *)
(***************************************************************************)
NumProcs == 2
MaxCalls == 3

Procs == 0 .. (NumProcs - 1)

(***************************************************************************)
(* Bit-level helpers.                                                      *)
(***************************************************************************)
RECURSIVE BitAnd(_, _)
BitAnd(a, b) ==
    IF a = 0 \/ b = 0 THEN 0
    ELSE (a % 2) * (b % 2) + 2 * BitAnd(a \div 2, b \div 2)

RECURSIVE BitsFrom(_, _)
BitsFrom(n, i) ==
    IF n = 0 THEN {}
    ELSE (IF n % 2 = 1 THEN {i} ELSE {}) \cup BitsFrom(n \div 2, i + 1)

\* the u64 value of a natural, as the set of its one-bits
Bits(n) == BitsFrom(n, 0)

U32 == 0 .. 31
U64 == 0 .. 63

\* `x as u32`
AsU32(x) == x \cap U32

(***************************************************************************)
(* Program constants.                                                      *)
(***************************************************************************)
PAGE_SIZE == 4096
SELECTOR_MASK == 248
U64_MAX == U64

PRIMARY_CTL == {31, 28}
SECONDARY_CTL == {3, 20, 12}
ENTRY_CTL == {9}
EXIT_CTL == {9}
PINBASED_CTL == {}

HypervisorError ==
    {"CPUUnsupported", "VMXUnsupported", "VMXBIOSLock",
     "MemoryAllocationFailed", "VirtualToPhysicalAddressFailed",
     "VMXONFailed", "VMXOFFFailed", "VMCLEARFailed", "VMPTRLDFailed",
     "VMREADFailed", "VMWRITEFailed", "VMLAUNCHFailed",
     "ProcessorSwitchFailed", "VcpuIsNone"}

VmxControl == {"PinBased", "ProcessorBased", "ProcessorBased2", "VmEntry", "VmExit"}

(***************************************************************************)
(* VMCS fields, in the order the Debug dump reads them.                    *)
(***************************************************************************)
GuestFields ==
    {"guest::CR0", "guest::CR3", "guest::CR4", "guest::DR7",
     "guest::RSP", "guest::RIP", "guest::RFLAGS",
     "guest::CS_SELECTOR", "guest::SS_SELECTOR", "guest::DS_SELECTOR",
     "guest::ES_SELECTOR", "guest::FS_SELECTOR", "guest::GS_SELECTOR",
     "guest::LDTR_SELECTOR", "guest::TR_SELECTOR",
     "guest::CS_BASE", "guest::SS_BASE", "guest::DS_BASE", "guest::ES_BASE",
     "guest::FS_BASE", "guest::GS_BASE", "guest::LDTR_BASE", "guest::TR_BASE",
     "guest::CS_LIMIT", "guest::SS_LIMIT", "guest::DS_LIMIT", "guest::ES_LIMIT",
     "guest::FS_LIMIT", "guest::GS_LIMIT", "guest::LDTR_LIMIT", "guest::TR_LIMIT",
     "guest::CS_ACCESS_RIGHTS", "guest::SS_ACCESS_RIGHTS",
     "guest::DS_ACCESS_RIGHTS", "guest::ES_ACCESS_RIGHTS",
     "guest::FS_ACCESS_RIGHTS", "guest::GS_ACCESS_RIGHTS",
     "guest::LDTR_ACCESS_RIGHTS", "guest::TR_ACCESS_RIGHTS",
     "guest::GDTR_BASE", "guest::IDTR_BASE",
     "guest::GDTR_LIMIT", "guest::IDTR_LIMIT",
     "guest::IA32_DEBUGCTL_FULL", "guest::IA32_SYSENTER_CS",
     "guest::IA32_SYSENTER_ESP", "guest::IA32_SYSENTER_EIP",
     "guest::LINK_PTR_FULL"}

HostFields ==
    {"host::CR0", "host::CR3", "host::CR4", "host::RSP", "host::RIP",
     "host::CS_SELECTOR", "host::SS_SELECTOR", "host::DS_SELECTOR",
     "host::ES_SELECTOR", "host::FS_SELECTOR", "host::GS_SELECTOR",
     "host::TR_SELECTOR", "host::FS_BASE", "host::GS_BASE", "host::TR_BASE",
     "host::GDTR_BASE", "host::IDTR_BASE", "host::IA32_SYSENTER_CS",
     "host::IA32_SYSENTER_ESP", "host::IA32_SYSENTER_EIP"}

\* the five control categories' fields
ControlCategoryFields ==
    {"control::PRIMARY_PROCBASED_EXEC_CONTROLS",
     "control::SECONDARY_PROCBASED_EXEC_CONTROLS",
     "control::VMENTRY_CONTROLS", "control::VMEXIT_CONTROLS",
     "control::PINBASED_EXEC_CONTROLS"}

ControlFields ==
    ControlCategoryFields \cup
    {"control::CR0_READ_SHADOW", "control::CR4_READ_SHADOW",
     "control::MSR_BITMAPS_ADDR_FULL"}

VmcsFields == GuestFields \cup HostFields \cup ControlFields

(***************************************************************************)
(* Input fixtures: captured contexts and the machine the code runs on.     *)
(***************************************************************************)
MakeContext(rip, rsp, cs, ss, ds, es, fs, gs, seed) ==
    [Rip |-> Bits(rip), Rsp |-> Bits(rsp),
     EFlags |-> Bits(514 + seed), Dr7 |-> Bits(1024 + seed),
     SegCs |-> cs, SegSs |-> ss, SegDs |-> ds,
     SegEs |-> es, SegFs |-> fs, SegGs |-> gs,
     Gpr |-> [r \in 1 .. 15 |-> Bits(seed * 16 + r)],
     Xmm |-> [x \in 0 .. 15 |-> <<Bits(seed * 32 + x), Bits(seed * 32 + x + 16)>>]]

\* RIP=0x1000, RSP=0x2000 with the selectors of a 64-bit Windows kernel thread
ContextKernel == MakeContext(4096, 8192, 16, 24, 43, 43, 83, 43, 1)
\* selectors that use bits 8..15 and the RPL/TI bits
ContextWide == MakeContext(20480, 24576, 264, 272, 65535, 4660, 32771, 519, 2)
\* selectors below 0x100, with and without RPL/TI bits
ContextLow == MakeContext(28672, 32768, 51, 43, 0, 7, 248, 255, 3)

Contexts == {ContextKernel, ContextWide, ContextLow}

NoContext == MakeContext(0, 0, 0, 0, 0, 0, 0, 0, 0)

\* the context a processor captures when several processors run at once
ContextOf(p) == IF p % 2 = 0 THEN ContextKernel ELSE ContextWide

Cap(a0, a1) == [allowed0 |-> a0, allowed1 |-> a1]

\* capability MSRs of a recent processor
CapsRecent ==
    [c \in VmxControl |->
        CASE c = "PinBased"        -> Cap({1, 2, 4}, 0 .. 6)
          [] c = "ProcessorBased"  -> Cap({1, 4, 5, 6, 8, 13, 14, 15, 16, 26}, U32 \ {0, 17, 18})
          [] c = "ProcessorBased2" -> Cap({}, 0 .. 27)
          [] c = "VmEntry"         -> Cap((0 .. 8) \cup {12}, 0 .. 17)
          [] c = "VmExit"          -> Cap((0 .. 8) \cup {10, 11, 13, 14, 16, 17}, 0 .. 23)]

\* an older processor: no secondary controls, no MSR bitmaps, no XSAVES/INVPCID
CapsOld ==
    [c \in VmxControl |->
        CASE c = "PinBased"        -> Cap({1, 2, 4}, 0 .. 4)
          [] c = "ProcessorBased"  -> Cap({1, 4, 5, 6, 8, 13, 14, 15, 16, 26}, (0 .. 27) \ {0, 17, 18})
          [] c = "ProcessorBased2" -> Cap({}, {0, 1, 2, 3})
          [] c = "VmEntry"         -> Cap((0 .. 8) \cup {12}, (0 .. 15) \ {9})
          [] c = "VmExit"          -> Cap((0 .. 8) \cup {10, 11, 13, 14, 16, 17}, 0 .. 21)]

\* true-capability reporting: nothing is mandatory, everything is allowed
CapsTrue == [c \in VmxControl |-> Cap({}, U32)]

MakeMachine(basic, caps) ==
    [vmx_basic |-> basic, caps |-> caps,
     cr0 |-> {0, 1, 4, 5, 16, 18, 31}, cr3 |-> Bits(12288),
     cr4 |-> {3, 4, 5, 6, 7, 9, 10, 13, 18, 20},
     ldtr |-> 0, tr |-> 64,
     fs_base |-> {}, gs_base |-> {16, 40, 63},
     debugctl |-> {0}, sysenter_cs |-> Bits(16),
     sysenter_esp |-> {12, 47}, sysenter_eip |-> {13, 47},
     gdtr |-> [base |-> {12, 40, 63}, limit |-> 127],
     idtr |-> [base |-> {13, 40, 63}, limit |-> 4095],
     msr_bitmap_pa |-> Bits(1048576)]

\* the machine the processors of SpecMP run on
MachineRecent == MakeMachine({2, 44, 51, 52, 55}, CapsRecent)

Machines ==
    {MachineRecent,
     MakeMachine({1, 4, 44, 51, 52}, CapsOld),
     MakeMachine({0, 31, 44, 51, 52, 55}, CapsTrue)}

\* mutant: every session uses one shared, statically allocated VMCS page
VmcsPaShared(p) == PAGE_SIZE

\* the physical page of the VMCS region of processor p's session
VmcsPa(p) == (p + 1) * PAGE_SIZE

\* the processor whose session owns the region at physical address pa
Owner(pa) == CHOOSE q \in Procs : VmcsPa(q) = pa

(***************************************************************************)
(* Collaborators outside the excerpt.                                      *)
(***************************************************************************)
\* SegmentDescriptor::from_selector: the descriptor at index selector >> 3
SegmentDescriptor(selector, gdtr) ==
    LET index == selector \div 8 IN
    IF index = 0 \/ index * 8 > gdtr.limit
    THEN [base_address |-> {}, segment_limit |-> {}, access_rights |-> {16}]
    ELSE [base_address |-> Bits(index * 4096),
          segment_limit |-> Bits(1048575),
          access_rights |-> Bits(40960 + 144 + (index % 16))]

\* adjust_vmx_controls: (requested | mandatory_ones) & allowed_ones
adjust_vmx_controls(control, requested_value) ==
    (AsU32(requested_value) \cup hw.caps[control].allowed0)
        \cap hw.caps[control].allowed1

(***************************************************************************)
(* The field writes of the three population functions, in source order.    *)
(* Each entry is <<field, value>>, one per vmwrite of the source.          *)
(***************************************************************************)
\* the descriptor a selector resolves to in the session's GDT
Desc(selector) == SegmentDescriptor(selector, hw.gdtr)

\* `selector & SELECTOR_MASK` of setup_host_registers_state
HostSelector(selector) == BitAnd(selector, SELECTOR_MASK)

\* mutant: the stack pointer is written to the RIP field, which the next write overwrites
GuestWritesRspFromRip(ctx) ==
    << <<"guest::CR0", hw.cr0>>,
       <<"guest::CR3", hw.cr3>>,
       <<"guest::CR4", hw.cr4>>,
       <<"guest::DR7", ctx.Dr7>>,
       <<"guest::RIP", ctx.Rsp>>,
       <<"guest::RIP", ctx.Rip>>,
       <<"guest::RFLAGS", ctx.EFlags>>,
       <<"guest::CS_SELECTOR", Bits(ctx.SegCs)>>,
       <<"guest::SS_SELECTOR", Bits(ctx.SegSs)>>,
       <<"guest::DS_SELECTOR", Bits(ctx.SegDs)>>,
       <<"guest::ES_SELECTOR", Bits(ctx.SegEs)>>,
       <<"guest::FS_SELECTOR", Bits(ctx.SegFs)>>,
       <<"guest::GS_SELECTOR", Bits(ctx.SegGs)>>,
       <<"guest::LDTR_SELECTOR", Bits(hw.ldtr)>>,
       <<"guest::TR_SELECTOR", Bits(hw.tr)>>,
       <<"guest::CS_BASE", Desc(ctx.SegCs).base_address>>,
       <<"guest::SS_BASE", Desc(ctx.SegSs).base_address>>,
       <<"guest::DS_BASE", Desc(ctx.SegDs).base_address>>,
       <<"guest::ES_BASE", Desc(ctx.SegEs).base_address>>,
       <<"guest::FS_BASE", hw.fs_base>>,
       <<"guest::GS_BASE", hw.gs_base>>,
       <<"guest::LDTR_BASE", Desc(hw.ldtr).base_address>>,
       <<"guest::TR_BASE", Desc(hw.tr).base_address>>,
       <<"guest::CS_LIMIT", Desc(ctx.SegCs).segment_limit>>,
       <<"guest::SS_LIMIT", Desc(ctx.SegSs).segment_limit>>,
       <<"guest::DS_LIMIT", Desc(ctx.SegDs).segment_limit>>,
       <<"guest::ES_LIMIT", Desc(ctx.SegEs).segment_limit>>,
       <<"guest::FS_LIMIT", Desc(ctx.SegFs).segment_limit>>,
       <<"guest::GS_LIMIT", Desc(ctx.SegGs).segment_limit>>,
       <<"guest::LDTR_LIMIT", Desc(hw.ldtr).segment_limit>>,
       <<"guest::TR_LIMIT", Desc(hw.tr).segment_limit>>,
       <<"guest::CS_ACCESS_RIGHTS", Desc(ctx.SegCs).access_rights>>,
       <<"guest::SS_ACCESS_RIGHTS", Desc(ctx.SegSs).access_rights>>,
       <<"guest::DS_ACCESS_RIGHTS", Desc(ctx.SegDs).access_rights>>,
       <<"guest::ES_ACCESS_RIGHTS", Desc(ctx.SegEs).access_rights>>,
       <<"guest::FS_ACCESS_RIGHTS", Desc(ctx.SegFs).access_rights>>,
       <<"guest::GS_ACCESS_RIGHTS", Desc(ctx.SegGs).access_rights>>,
       <<"guest::LDTR_ACCESS_RIGHTS", Desc(hw.ldtr).access_rights>>,
       <<"guest::TR_ACCESS_RIGHTS", Desc(hw.tr).access_rights>>,
       <<"guest::GDTR_BASE", hw.gdtr.base>>,
       <<"guest::IDTR_BASE", hw.idtr.base>>,
       <<"guest::GDTR_LIMIT", Bits(hw.gdtr.limit)>>,
       <<"guest::IDTR_LIMIT", Bits(hw.idtr.limit)>>,
       <<"guest::IA32_DEBUGCTL_FULL", hw.debugctl>>,
       <<"guest::IA32_SYSENTER_CS", hw.sysenter_cs>>,
       <<"guest::IA32_SYSENTER_ESP", hw.sysenter_esp>>,
       <<"guest::IA32_SYSENTER_EIP", hw.sysenter_eip>>,
       <<"guest::LINK_PTR_FULL", U64_MAX>> >>

\* the vmwrites of setup_guest_registers_state
GuestWrites(ctx) ==
    << <<"guest::CR0", hw.cr0>>,
       <<"guest::CR3", hw.cr3>>,
       <<"guest::CR4", hw.cr4>>,
       <<"guest::DR7", ctx.Dr7>>,
       <<"guest::RSP", ctx.Rsp>>,
       <<"guest::RIP", ctx.Rip>>,
       <<"guest::RFLAGS", ctx.EFlags>>,
       <<"guest::CS_SELECTOR", Bits(ctx.SegCs)>>,
       <<"guest::SS_SELECTOR", Bits(ctx.SegSs)>>,
       <<"guest::DS_SELECTOR", Bits(ctx.SegDs)>>,
       <<"guest::ES_SELECTOR", Bits(ctx.SegEs)>>,
       <<"guest::FS_SELECTOR", Bits(ctx.SegFs)>>,
       <<"guest::GS_SELECTOR", Bits(ctx.SegGs)>>,
       <<"guest::LDTR_SELECTOR", Bits(hw.ldtr)>>,
       <<"guest::TR_SELECTOR", Bits(hw.tr)>>,
       <<"guest::CS_BASE", Desc(ctx.SegCs).base_address>>,
       <<"guest::SS_BASE", Desc(ctx.SegSs).base_address>>,
       <<"guest::DS_BASE", Desc(ctx.SegDs).base_address>>,
       <<"guest::ES_BASE", Desc(ctx.SegEs).base_address>>,
       <<"guest::FS_BASE", hw.fs_base>>,
       <<"guest::GS_BASE", hw.gs_base>>,
       <<"guest::LDTR_BASE", Desc(hw.ldtr).base_address>>,
       <<"guest::TR_BASE", Desc(hw.tr).base_address>>,
       <<"guest::CS_LIMIT", Desc(ctx.SegCs).segment_limit>>,
       <<"guest::SS_LIMIT", Desc(ctx.SegSs).segment_limit>>,
       <<"guest::DS_LIMIT", Desc(ctx.SegDs).segment_limit>>,
       <<"guest::ES_LIMIT", Desc(ctx.SegEs).segment_limit>>,
       <<"guest::FS_LIMIT", Desc(ctx.SegFs).segment_limit>>,
       <<"guest::GS_LIMIT", Desc(ctx.SegGs).segment_limit>>,
       <<"guest::LDTR_LIMIT", Desc(hw.ldtr).segment_limit>>,
       <<"guest::TR_LIMIT", Desc(hw.tr).segment_limit>>,
       <<"guest::CS_ACCESS_RIGHTS", Desc(ctx.SegCs).access_rights>>,
       <<"guest::SS_ACCESS_RIGHTS", Desc(ctx.SegSs).access_rights>>,
       <<"guest::DS_ACCESS_RIGHTS", Desc(ctx.SegDs).access_rights>>,
       <<"guest::ES_ACCESS_RIGHTS", Desc(ctx.SegEs).access_rights>>,
       <<"guest::FS_ACCESS_RIGHTS", Desc(ctx.SegFs).access_rights>>,
       <<"guest::GS_ACCESS_RIGHTS", Desc(ctx.SegGs).access_rights>>,
       <<"guest::LDTR_ACCESS_RIGHTS", Desc(hw.ldtr).access_rights>>,
       <<"guest::TR_ACCESS_RIGHTS", Desc(hw.tr).access_rights>>,
       <<"guest::GDTR_BASE", hw.gdtr.base>>,
       <<"guest::IDTR_BASE", hw.idtr.base>>,
       <<"guest::GDTR_LIMIT", Bits(hw.gdtr.limit)>>,
       <<"guest::IDTR_LIMIT", Bits(hw.idtr.limit)>>,
       <<"guest::IA32_DEBUGCTL_FULL", hw.debugctl>>,
       <<"guest::IA32_SYSENTER_CS", hw.sysenter_cs>>,
       <<"guest::IA32_SYSENTER_ESP", hw.sysenter_esp>>,
       <<"guest::IA32_SYSENTER_EIP", hw.sysenter_eip>>,
       <<"guest::LINK_PTR_FULL", U64_MAX>> >>

\* the register shadow setup_guest_registers_state fills
GuestRegisters(ctx) == [gpr |-> ctx.Gpr, xmm |-> ctx.Xmm]

NoGuestRegisters == [gpr |-> [r \in 1 .. 15 |-> {}], xmm |-> [x \in 0 .. 15 |-> <<{}, {}>>]]

\* mutant: host population also programs the host stack and instruction pointers
HostWritesWithStack(ctx) ==
    << <<"host::CR0", hw.cr0>>,
       <<"host::CR3", hw.cr3>>,
       <<"host::CR4", hw.cr4>>,
       <<"host::RSP", ctx.Rsp>>,
       <<"host::RIP", ctx.Rip>>,
       <<"host::CS_SELECTOR", Bits(HostSelector(ctx.SegCs))>>,
       <<"host::SS_SELECTOR", Bits(HostSelector(ctx.SegSs))>>,
       <<"host::DS_SELECTOR", Bits(HostSelector(ctx.SegDs))>>,
       <<"host::ES_SELECTOR", Bits(HostSelector(ctx.SegEs))>>,
       <<"host::FS_SELECTOR", Bits(HostSelector(ctx.SegFs))>>,
       <<"host::GS_SELECTOR", Bits(HostSelector(ctx.SegGs))>>,
       <<"host::TR_SELECTOR", Bits(HostSelector(hw.tr))>>,
       <<"host::FS_BASE", hw.fs_base>>,
       <<"host::GS_BASE", hw.gs_base>>,
       <<"host::TR_BASE", Desc(hw.tr).base_address>>,
       <<"host::GDTR_BASE", hw.gdtr.base>>,
       <<"host::IDTR_BASE", hw.idtr.base>>,
       <<"host::IA32_SYSENTER_CS", hw.sysenter_cs>>,
       <<"host::IA32_SYSENTER_ESP", hw.sysenter_esp>>,
       <<"host::IA32_SYSENTER_EIP", hw.sysenter_eip>> >>

\* the vmwrites of setup_host_registers_state
HostWrites(ctx) ==
    << <<"host::CR0", hw.cr0>>,
       <<"host::CR3", hw.cr3>>,
       <<"host::CR4", hw.cr4>>,
       <<"host::CS_SELECTOR", Bits(HostSelector(ctx.SegCs))>>,
       <<"host::SS_SELECTOR", Bits(HostSelector(ctx.SegSs))>>,
       <<"host::DS_SELECTOR", Bits(HostSelector(ctx.SegDs))>>,
       <<"host::ES_SELECTOR", Bits(HostSelector(ctx.SegEs))>>,
       <<"host::FS_SELECTOR", Bits(HostSelector(ctx.SegFs))>>,
       <<"host::GS_SELECTOR", Bits(HostSelector(ctx.SegGs))>>,
       <<"host::TR_SELECTOR", Bits(HostSelector(hw.tr))>>,
       <<"host::FS_BASE", hw.fs_base>>,
       <<"host::GS_BASE", hw.gs_base>>,
       <<"host::TR_BASE", Desc(hw.tr).base_address>>,
       <<"host::GDTR_BASE", hw.gdtr.base>>,
       <<"host::IDTR_BASE", hw.idtr.base>>,
       <<"host::IA32_SYSENTER_CS", hw.sysenter_cs>>,
       <<"host::IA32_SYSENTER_ESP", hw.sysenter_esp>>,
       <<"host::IA32_SYSENTER_EIP", hw.sysenter_eip>> >>

\* mutant: the VM-entry and VM-exit controls are adjusted against each other's category
ControlWritesSwapped ==
    << <<"control::PRIMARY_PROCBASED_EXEC_CONTROLS", adjust_vmx_controls("ProcessorBased", PRIMARY_CTL)>>,
       <<"control::SECONDARY_PROCBASED_EXEC_CONTROLS", adjust_vmx_controls("ProcessorBased2", SECONDARY_CTL)>>,
       <<"control::VMENTRY_CONTROLS", adjust_vmx_controls("VmExit", ENTRY_CTL)>>,
       <<"control::VMEXIT_CONTROLS", adjust_vmx_controls("VmEntry", EXIT_CTL)>>,
       <<"control::PINBASED_EXEC_CONTROLS", adjust_vmx_controls("PinBased", PINBASED_CTL)>>,
       <<"control::CR0_READ_SHADOW", hw.cr0>>,
       <<"control::CR4_READ_SHADOW", hw.cr4>>,
       <<"control::MSR_BITMAPS_ADDR_FULL", hw.msr_bitmap_pa>> >>

\* the vmwrites of setup_vmcs_control_fields
ControlWrites ==
    << <<"control::PRIMARY_PROCBASED_EXEC_CONTROLS", adjust_vmx_controls("ProcessorBased", PRIMARY_CTL)>>,
       <<"control::SECONDARY_PROCBASED_EXEC_CONTROLS", adjust_vmx_controls("ProcessorBased2", SECONDARY_CTL)>>,
       <<"control::VMENTRY_CONTROLS", adjust_vmx_controls("VmEntry", ENTRY_CTL)>>,
       <<"control::VMEXIT_CONTROLS", adjust_vmx_controls("VmExit", EXIT_CTL)>>,
       <<"control::PINBASED_EXEC_CONTROLS", adjust_vmx_controls("PinBased", PINBASED_CTL)>>,
       <<"control::CR0_READ_SHADOW", hw.cr0>>,
       <<"control::CR4_READ_SHADOW", hw.cr4>>,
       <<"control::MSR_BITMAPS_ADDR_FULL", hw.msr_bitmap_pa>> >>

(***************************************************************************)
(* The privileged-instruction primitives and what they do to the machine.  *)
(***************************************************************************)
Instr(op, field, ok) == [op |-> op, field |-> field, ok |-> ok]

\* a page from the allocator: zero-initialized, never cleared
FreshRegion == [revision_id |-> {}, cleared |-> FALSE,
                fields |-> [f \in VmcsFields |-> {}]]

\* vmwrite succeeds exactly when the processor has a current VMCS
VmwriteOk(cur) == cur # 0

RECURSIVE ApplyWrites(_, _, _)
\* the fields of the current VMCS after the vmwrites writes[i..]
ApplyWrites(fields, writes, i) ==
    IF i > Len(writes) THEN fields
    ELSE ApplyWrites([fields EXCEPT ![writes[i][1]] = writes[i][2]], writes, i + 1)

WriteInstrs(writes, ok) ==
    [i \in 1 .. Len(writes) |-> Instr("VMWRITE", writes[i][1], ok)]

\* processor p issues the vmwrites of one population function
Vmwrites(p, writes) ==
    LET ok == VmwriteOk(current[p]) IN
    /\ trace' = [trace EXCEPT ![p] = @ \o WriteInstrs(writes, ok)]
    /\ vmcs' = IF ok
               THEN [vmcs EXCEPT ![Owner(current[p])].fields = ApplyWrites(@, writes, 1)]
               ELSE vmcs

\* vmread of a field of processor p's current VMCS
Vmread(p, field) == vmcs[Owner(current[p])].fields[field]

\* Vmcs::get_vmcs_revision_id
get_vmcs_revision_id == AsU32(hw.vmx_basic) \cap (0 .. 30)

\* the instructions this call of virtualize_cpu has issued so far
CallTrace(p) == SubSeq(trace[p], callStart[p] + 1, Len(trace[p]))

(***************************************************************************)
(* Vmcs::setup as a function of the translation result and of the two      *)
(* instruction outcomes.  The results of vmclear and vmptrld are dropped   *)
(* by the caller: setup goes on and returns Ok whatever they are.          *)
(***************************************************************************)
\* mutant: setup goes on with a null physical address
SetupNoNullCheck(region, cur, pa, clearOk, loadOk) ==
    LET r1 == [region EXCEPT !.revision_id = get_vmcs_revision_id \ {31}]
        r2 == IF clearOk THEN [r1 EXCEPT !.cleared = TRUE] ELSE r1
        c2 == IF clearOk /\ cur = pa THEN 0 ELSE cur
        c3 == IF loadOk THEN pa ELSE c2
    IN [ret |-> "Ok", region |-> r2, current |-> c3,
        instrs |-> <<Instr("VMCLEAR", "", clearOk), Instr("VMPTRLD", "", loadOk)>>,
        at_clear |-> <<r1.revision_id>>]

\* mutant: setup loads the region before it clears it
SetupLoadFirst(region, cur, pa, clearOk, loadOk) ==
    IF pa = 0
    THEN [ret |-> "VirtualToPhysicalAddressFailed", region |-> region,
          current |-> cur, instrs |-> <<>>, at_clear |-> <<>>]
    ELSE
    LET r1 == [region EXCEPT !.revision_id = get_vmcs_revision_id \ {31}]
        c2 == IF loadOk THEN pa ELSE cur
        r2 == IF clearOk THEN [r1 EXCEPT !.cleared = TRUE] ELSE r1
        c3 == IF clearOk /\ c2 = pa THEN 0 ELSE c2
    IN [ret |-> "Ok", region |-> r2, current |-> c3,
        instrs |-> <<Instr("VMPTRLD", "", loadOk), Instr("VMCLEAR", "", clearOk)>>,
        at_clear |-> <<r1.revision_id>>]

\* mutant: setup clears and loads the region first and writes the revision
\* identifier, with bit 31 as reported, afterwards
SetupRevisionLast(region, cur, pa, clearOk, loadOk) ==
    IF pa = 0
    THEN [ret |-> "VirtualToPhysicalAddressFailed", region |-> region,
          current |-> cur, instrs |-> <<>>, at_clear |-> <<>>]
    ELSE
    LET r1 == IF clearOk THEN [region EXCEPT !.cleared = TRUE] ELSE region
        c2 == IF clearOk /\ cur = pa THEN 0 ELSE cur
        c3 == IF loadOk THEN pa ELSE c2
        r2 == [r1 EXCEPT !.revision_id = AsU32(hw.vmx_basic)]
    IN [ret |-> "Ok", region |-> r2, current |-> c3,
        instrs |-> <<Instr("VMCLEAR", "", clearOk), Instr("VMPTRLD", "", loadOk)>>,
        at_clear |-> <<region.revision_id>>]

Setup(region, cur, pa, clearOk, loadOk) ==
    IF pa = 0
    THEN [ret |-> "VirtualToPhysicalAddressFailed", region |-> region,
          current |-> cur, instrs |-> <<>>, at_clear |-> <<>>]
    ELSE
    LET r1 == [region EXCEPT !.revision_id = get_vmcs_revision_id \ {31}]
        \* vmclear: the region's launch state becomes clear, and it stops
        \* being current if it was
        r2 == IF clearOk THEN [r1 EXCEPT !.cleared = TRUE] ELSE r1
        c2 == IF clearOk /\ cur = pa THEN 0 ELSE cur
        \* vmptrld: the region becomes the processor's current VMCS
        c3 == IF loadOk THEN pa ELSE c2
    IN [ret |-> "Ok", region |-> r2, current |-> c3,
        instrs |-> <<Instr("VMCLEAR", "", clearOk), Instr("VMPTRLD", "", loadOk)>>,
        at_clear |-> <<r1.revision_id>>]

(***************************************************************************)
(* Actions: one per function on the path of Vcpu::virtualize_cpu.          *)
(***************************************************************************)
Init ==
    /\ is_virtualized = [p \in Procs |-> FALSE]
    /\ pc = [p \in Procs |-> "idle"]
    /\ result = [p \in Procs |-> "none"]
    /\ calls = [p \in Procs |-> 0]
    /\ callStart = [p \in Procs |-> 0]
    /\ context = [p \in Procs |-> NoContext]
    /\ vmx_on = [p \in Procs |-> FALSE]
    /\ current = [p \in Procs |-> 0]
    /\ vmcs = [p \in Procs |-> FreshRegion]
    /\ guest_registers = [p \in Procs |-> NoGuestRegisters]
    /\ setup_ret = [p \in Procs |-> "none"]
    /\ setup_pa = [p \in Procs |-> -1]
    /\ rev_at_clear = [p \in Procs |-> <<>>]
    /\ trace = [p \in Procs |-> <<>>]
    /\ hw \in Machines

\* virtualize_cpu returns r to its caller
Return(p, r) ==
    /\ result' = [result EXCEPT ![p] = r]
    /\ pc' = [pc EXCEPT ![p] = "idle"]

\* mutant: the guard of virtualize_cpu is missing
GuardAlways(flag) == TRUE

\* `if !self.is_virtualized`
Guard(flag) == ~flag

\* Vcpu::virtualize_cpu, up to the call of Vmx::new
VirtualizeCpu(p, ctx) ==
    /\ pc[p] = "idle"
    /\ calls[p] < MaxCalls
    /\ calls' = [calls EXCEPT ![p] = @ + 1]
    /\ callStart' = [callStart EXCEPT ![p] = Len(trace[p])]
    /\ IF Guard(is_virtualized[p])
       THEN /\ is_virtualized' = [is_virtualized EXCEPT ![p] = TRUE]
            /\ context' = [context EXCEPT ![p] = ctx]
            /\ pc' = [pc EXCEPT ![p] = "vmx_new"]
            /\ result' = [result EXCEPT ![p] = "pending"]
       ELSE /\ Return(p, "Ok")
            /\ UNCHANGED <<is_virtualized, context>>
    /\ UNCHANGED <<vmx_on, current, vmcs, guest_registers, setup_ret, setup_pa, rev_at_clear, trace, hw>>

\* Vmx::new(context)?: allocates the session; no hardware side effect
VmxNew(p) ==
    /\ pc[p] = "vmx_new"
    /\ \E ok \in BOOLEAN :
          IF ok
          THEN /\ pc' = [pc EXCEPT ![p] = "vmxon"]
               /\ UNCHANGED result
          ELSE Return(p, "MemoryAllocationFailed")
    /\ UNCHANGED <<is_virtualized, calls, callStart, context, vmx_on, current,
                   vmcs, guest_registers, setup_ret, setup_pa, rev_at_clear, trace, hw>>

\* Vmx::init, first stage: VMXON region setup and VMXON
VmxInitVmxon(p) ==
    /\ pc[p] = "vmxon"
    /\ \E ok \in BOOLEAN :
          /\ trace' = [trace EXCEPT ![p] = Append(@, Instr("VMXON", "", ok))]
          /\ IF ok
             THEN /\ vmx_on' = [vmx_on EXCEPT ![p] = TRUE]
                  /\ pc' = [pc EXCEPT ![p] = "vmcs_setup"]
                  /\ UNCHANGED result
             ELSE /\ Return(p, "VMXONFailed")
                  /\ UNCHANGED vmx_on
    /\ UNCHANGED <<is_virtualized, calls, callStart, context, current, vmcs,
                   guest_registers, setup_ret, setup_pa, rev_at_clear, hw>>

\* Vmcs::setup(&mut vmcs_region)? as called by Vmx::init
VmcsSetup(p) ==
    /\ pc[p] = "vmcs_setup"
    /\ \E pa \in {0, VmcsPa(p)}, clearOk \in BOOLEAN, loadOk \in BOOLEAN :
          LET r == Setup(vmcs[p], current[p], pa, clearOk, loadOk) IN
          /\ vmcs' = [vmcs EXCEPT ![p] = r.region]
          /\ current' = [current EXCEPT ![p] = r.current]
          /\ trace' = [trace EXCEPT ![p] = @ \o r.instrs]
          /\ setup_ret' = [setup_ret EXCEPT ![p] = r.ret]
          /\ setup_pa' = [setup_pa EXCEPT ![p] = pa]
          /\ rev_at_clear' = [rev_at_clear EXCEPT ![p] = r.at_clear]
          /\ IF r.ret = "Ok"
             THEN /\ pc' = [pc EXCEPT ![p] = "guest_state"]
                  /\ UNCHANGED result
             ELSE Return(p, r.ret)
    /\ UNCHANGED <<is_virtualized, calls, callStart, context, vmx_on,
                   guest_registers, hw>>

\* Vmcs::setup_guest_registers_state
SetupGuestRegistersState(p) ==
    /\ pc[p] = "guest_state"
    /\ Vmwrites(p, GuestWrites(context[p]))
    /\ guest_registers' = [guest_registers EXCEPT ![p] = GuestRegisters(context[p])]
    /\ pc' = [pc EXCEPT ![p] = "host_state"]
    /\ UNCHANGED <<is_virtualized, result, calls, callStart, context, vmx_on,
                   current, setup_ret, setup_pa, rev_at_clear, hw>>

\* Vmcs::setup_host_registers_state
SetupHostRegistersState(p) ==
    /\ pc[p] = "host_state"
    /\ Vmwrites(p, HostWrites(context[p]))
    /\ pc' = [pc EXCEPT ![p] = "controls"]
    /\ UNCHANGED <<is_virtualized, result, calls, callStart, context, vmx_on,
                   current, guest_registers, setup_ret, setup_pa, rev_at_clear, hw>>

\* Vmcs::setup_vmcs_control_fields; Vmx::init then returns Ok
SetupVmcsControlFields(p) ==
    /\ pc[p] = "controls"
    /\ Vmwrites(p, ControlWrites)
    /\ pc' = [pc EXCEPT ![p] = "launch"]
    /\ UNCHANGED <<is_virtualized, result, calls, callStart, context, vmx_on,
                   current, guest_registers, setup_ret, setup_pa, rev_at_clear, hw>>

\* the host RSP and RIP the entry trampoline programs
TrampolineWrites == << <<"host::RSP", {15, 47}>>, <<"host::RIP", {14, 47}>> >>

\* `unsafe { launch_vm() };` and, when VMLAUNCH fails, the `Ok(())` after it
LaunchVm(p) ==
    /\ pc[p] = "launch"
    /\ \E ok \in (IF current[p] # 0 THEN BOOLEAN ELSE {FALSE}) :
          LET w == VmwriteOk(current[p]) IN
          /\ trace' = [trace EXCEPT ![p] =
                          (@ \o WriteInstrs(TrampolineWrites, w))
                             \o <<Instr("VMLAUNCH", "", ok)>>]
          /\ vmcs' = IF w
                     THEN [vmcs EXCEPT ![Owner(current[p])].fields =
                                          ApplyWrites(@, TrampolineWrites, 1)]
                     ELSE vmcs
          /\ IF ok
             THEN /\ pc' = [pc EXCEPT ![p] = "guest"]
                  /\ UNCHANGED result
             ELSE Return(p, "Ok")
    /\ UNCHANGED <<is_virtualized, calls, callStart, context, vmx_on, current,
                   guest_registers, setup_ret, setup_pa, rev_at_clear, hw>>

\* the guest exits and the host call stack resumes: virtualize_cpu returns Ok(())
VmExitResume(p) ==
    /\ pc[p] = "guest"
    /\ Return(p, "Ok")
    /\ UNCHANGED <<is_virtualized, calls, callStart, context, vmx_on, current,
                   vmcs, guest_registers, setup_ret, setup_pa, rev_at_clear, trace, hw>>

\* the processor whose session Spec follows
BootProcessor == 0

\* one processor, every context fixture
Next ==
    \/ \E ctx \in Contexts : VirtualizeCpu(BootProcessor, ctx)
    \/ VmxNew(BootProcessor)
    \/ VmxInitVmxon(BootProcessor)
    \/ VmcsSetup(BootProcessor)
    \/ SetupGuestRegistersState(BootProcessor)
    \/ SetupHostRegistersState(BootProcessor)
    \/ SetupVmcsControlFields(BootProcessor)
    \/ LaunchVm(BootProcessor)
    \/ VmExitResume(BootProcessor)

Spec == Init /\ [][Next]_vars

\* every processor at once, each on its own Vcpu with its own context
NextMP ==
    \/ \E p \in Procs : VirtualizeCpu(p, ContextOf(p))
    \/ \E p \in Procs : VmxNew(p)
    \/ \E p \in Procs : VmxInitVmxon(p)
    \/ \E p \in Procs : VmcsSetup(p)
    \/ \E p \in Procs : SetupGuestRegistersState(p)
    \/ \E p \in Procs : SetupHostRegistersState(p)
    \/ \E p \in Procs : SetupVmcsControlFields(p)
    \/ \E p \in Procs : LaunchVm(p)
    \/ \E p \in Procs : VmExitResume(p)

\* the logical processors of one machine share its capability reporting
InitMP == Init /\ hw = MachineRecent

SpecMP == InitMP /\ [][NextMP]_vars

TypeOK ==
    /\ is_virtualized \in [Procs -> BOOLEAN]
    /\ \A p \in Procs : calls[p] \in 0 .. MaxCalls
    /\ \A p \in Procs : current[p] \in {0} \cup {VmcsPa(q) : q \in Procs}
    /\ \A p \in Procs : result[p] \in {"none", "pending", "Ok"} \cup HypervisorError

(***************************************************************************)
(* Helpers of the properties.                                              *)
(***************************************************************************)
\* positions of the call's trace where instruction op was issued
Positions(t, op) == {i \in 1 .. Len(t) : t[i].op = op}

AllOk(t) == \A i \in 1 .. Len(t) : t[i].ok

IsWriteTo(ins, fieldSet) == ins.op = "VMWRITE" /\ ins.field \in fieldSet

\* t is VMXON, VMCLEAR, VMPTRLD, g guest writes, h host writes, the writes
\* of the five control-category fields, x further field writes, VMLAUNCH
Shaped(t, g, h, x) ==
    /\ Len(t) = 3 + g + h + 5 + x + 1
    /\ t[1].op = "VMXON" /\ t[2].op = "VMCLEAR" /\ t[3].op = "VMPTRLD"
    /\ \A i \in 4 .. (3 + g) : IsWriteTo(t[i], GuestFields)
    /\ \A i \in (4 + g) .. (3 + g + h) : IsWriteTo(t[i], HostFields)
    /\ \A i \in (4 + g + h) .. (8 + g + h) : IsWriteTo(t[i], ControlCategoryFields)
    /\ {t[i].field : i \in (4 + g + h) .. (8 + g + h)} = ControlCategoryFields
    /\ \A i \in (9 + g + h) .. (8 + g + h + x) : t[i].op = "VMWRITE"
    /\ t[Len(t)].op = "VMLAUNCH"

\* a call in which every instruction succeeded and VMLAUNCH was issued
LaunchedAllOk(p) ==
    LET t == CallTrace(p) IN
    /\ Len(t) > 0 /\ AllOk(t) /\ t[Len(t)].op = "VMLAUNCH"

(***************************************************************************)
(* C1: a virtualize_cpu call that returned an error leaves is_virtualized  *)
(* false, so that a later call drives the session again.                   *)
(***************************************************************************)
C1_FailedCallLeavesFlagClear ==
    \A p \in Procs :
        (pc[p] = "idle" /\ result[p] \in HypervisorError) => ~is_virtualized[p]

(***************************************************************************)
(* C2: a virtualize_cpu call on an already virtualized Vcpu returns Ok,    *)
(* issues no instruction and changes nothing of the Vcpu, the processor or *)
(* the VMCS, however many times it is repeated.                            *)
(***************************************************************************)
C2_AlreadyVirtualizedIsNoOp ==
    [][\A p \in Procs :
          (pc[p] = "idle" /\ is_virtualized[p] /\ calls'[p] # calls[p]) =>
              /\ result'[p] = "Ok"
              /\ pc'[p] = "idle"
              /\ trace' = trace
              /\ is_virtualized' = is_virtualized
              /\ vmx_on' = vmx_on /\ current' = current /\ vmcs' = vmcs
              /\ guest_registers' = guest_registers]_vars

\* two repeated calls on a launched Vcpu have returned Ok without an instruction
C2_Witness ==
    \E p \in Procs :
        /\ calls[p] >= 3 /\ pc[p] = "idle" /\ is_virtualized[p]
        /\ result[p] = "Ok" /\ Len(CallTrace(p)) = 0
        /\ Positions(trace[p], "VMLAUNCH") # {}

(***************************************************************************)
(* C3: a virtualize_cpu call in which VMLAUNCH failed returns the          *)
(* VMLAUNCHFailed kind, never success.                                     *)
(***************************************************************************)
C3_LaunchFailureReported ==
    \A p \in Procs :
        LET t == CallTrace(p) IN
        (pc[p] = "idle" /\ \E i \in Positions(t, "VMLAUNCH") : ~t[i].ok)
            => result[p] = "VMLAUNCHFailed"

(***************************************************************************)
(* C4: a failing VMCLEAR makes Vmcs::setup return VMCLEARFailed, a failing *)
(* VMPTRLD makes it return VMPTRLDFailed, and the failing instruction is   *)
(* the last one the call issues.                                           *)
(***************************************************************************)
C4_SetupReportsClearAndLoadFailure ==
    \A p \in Procs :
        LET t == CallTrace(p) IN
        \A i \in 1 .. Len(t) :
            /\ (t[i].op = "VMCLEAR" /\ ~t[i].ok) =>
                   (setup_ret[p] = "VMCLEARFailed" /\ i = Len(t))
            /\ (t[i].op = "VMPTRLD" /\ ~t[i].ok) =>
                   (setup_ret[p] = "VMPTRLDFailed" /\ i = Len(t))

(***************************************************************************)
(* C5: in a call where every instruction succeeds, VMCLEAR precedes        *)
(* VMPTRLD, every field write follows VMPTRLD and VMLAUNCH follows every   *)
(* field write.  Once VMLAUNCH is issued the trace is VMXON, VMCLEAR,      *)
(* VMPTRLD, at least 15 guest-state writes, at least 10 host-state writes, *)
(* the writes of the 5 control-category fields, 5 further field writes     *)
(* (CR0/CR4 read shadows, MSR-bitmap address, host RSP and RIP), VMLAUNCH. *)
(***************************************************************************)
C5_SuccessfulTraceOrder ==
    \A p \in Procs :
        LET t == CallTrace(p) IN
        AllOk(t) =>
            /\ \A i \in Positions(t, "VMPTRLD") :
                   \E j \in Positions(t, "VMCLEAR") : j < i
            /\ \A i \in Positions(t, "VMWRITE") :
                   \E j \in Positions(t, "VMPTRLD") : j < i
            /\ \A i \in Positions(t, "VMLAUNCH") : i = Len(t)
            /\ LaunchedAllOk(p) =>
                   \E g \in 15 .. Len(t), h \in 10 .. Len(t) : Shaped(t, g, h, 5)

\* a call whose instructions all succeeded has issued VMLAUNCH
C5_Witness ==
    \E p \in Procs : LaunchedAllOk(p) /\ pc[p] = "guest"

\* C5 as first stated: after the host-state writes come exactly the 5
\* control writes and then VMLAUNCH
C5_OriginalFiveControlWrites ==
    \A p \in Procs :
        LET t == CallTrace(p) IN
        LaunchedAllOk(p) =>
            \E g \in 15 .. Len(t), h \in 10 .. Len(t) : Shaped(t, g, h, 0)

(***************************************************************************)
(* C6: VMPTRLD on a region that was not cleared by VMCLEAR is rejected:    *)
(* it does not succeed, and an uncleared region never becomes the current  *)
(* VMCS of a processor.                                                    *)
(***************************************************************************)
C6_LoadRequiresClear ==
    \A p \in Procs :
        /\ (current[p] # 0) => vmcs[Owner(current[p])].cleared
        /\ \A i \in Positions(trace[p], "VMPTRLD") :
               trace[p][i].ok => vmcs[p].cleared

(***************************************************************************)
(* C7: with every processor running virtualize_cpu on its own Vcpu, the    *)
(* current VMCS of a processor is none or the region of its own session,   *)
(* and a step of one processor leaves the Vcpu flag, the current-VMCS      *)
(* pointer and the VMCS region of every other processor unchanged.         *)
(***************************************************************************)
C7_PerProcessorVmcs ==
    /\ [](\A p \in Procs : current[p] \in {0, (p + 1) * PAGE_SIZE})
    /\ [][\A p \in Procs :
             (pc'[p] # pc[p] \/ calls'[p] # calls[p]) =>
                 \A q \in Procs \ {p} :
                     /\ is_virtualized'[q] = is_virtualized[q]
                     /\ current'[q] = current[q]
                     /\ vmcs'[q] = vmcs[q]
                     /\ pc'[q] = pc[q]]_vars

\* two processors hold their own populated VMCS at the same instant
C7_Witness ==
    \E p \in Procs : \E q \in Procs \ {p} :
        /\ current[p] = VmcsPa(p) /\ current[q] = VmcsPa(q)
        /\ pc[p] = "guest" /\ pc[q] = "launch"
        /\ vmcs[p].fields["guest::RIP"] = ContextOf(p).Rip
        /\ vmcs[q].fields["guest::RIP"] = ContextOf(q).Rip
        /\ vmcs[p].fields # vmcs[q].fields

(***************************************************************************)
(* C8: for every control category and requested mask, the adjusted value   *)
(* is (requested | mandatory_ones) & allowed_ones, contains every          *)
(* mandatory-one bit and no bit outside allowed_ones; and each of the five *)
(* control fields holds the adjusted baseline of its own category once     *)
(* control population has written it.                                      *)
(***************************************************************************)
RequestedMasks ==
    {PRIMARY_CTL, SECONDARY_CTL, ENTRY_CTL, PINBASED_CTL,
     U32, {0, 17, 18}, {27, 40, 63}}

\* control population has run on a processor with a current VMCS
ControlsWritten(p) ==
    /\ current[p] # 0
    /\ \E i \in Positions(CallTrace(p), "VMWRITE") :
           /\ CallTrace(p)[i].field = "control::PINBASED_EXEC_CONTROLS"
           /\ CallTrace(p)[i].ok

Adjusted(control, requested) ==
    (AsU32(requested) \cup hw.caps[control].allowed0) \cap hw.caps[control].allowed1

HostWritten(p) ==
    /\ current[p] # 0
    /\ \E i \in Positions(CallTrace(p), "VMWRITE") :
           /\ CallTrace(p)[i].field = "host::IA32_SYSENTER_EIP"
           /\ CallTrace(p)[i].ok

C9_HostSelectorMask ==
    \A p \in Procs :
        HostWritten(p) =>
            /\ Vmread(p, "host::CS_SELECTOR") = Bits(context[p].SegCs) \ {0, 1, 2}
            /\ Vmread(p, "host::SS_SELECTOR") = Bits(context[p].SegSs) \ {0, 1, 2}
            /\ Vmread(p, "host::DS_SELECTOR") = Bits(context[p].SegDs) \ {0, 1, 2}
            /\ Vmread(p, "host::ES_SELECTOR") = Bits(context[p].SegEs) \ {0, 1, 2}
            /\ Vmread(p, "host::FS_SELECTOR") = Bits(context[p].SegFs) \ {0, 1, 2}
            /\ Vmread(p, "host::GS_SELECTOR") = Bits(context[p].SegGs) \ {0, 1, 2}

(***************************************************************************)
(* C10: when translation of the VMCS region yields a null physical         *)
(* address, Vmcs::setup returns VirtualToPhysicalAddressFailed, issues     *)
(* neither VMCLEAR nor VMPTRLD and leaves the revision identifier          *)
(* unwritten.                                                              *)
(***************************************************************************)
C10_NullTranslationAborts ==
    \A p \in Procs :
        setup_pa[p] = 0 =>
            /\ setup_ret[p] = "VirtualToPhysicalAddressFailed"
            /\ (Len(CallTrace(p)) > 0) => result[p] = "VirtualToPhysicalAddressFailed"
            /\ Positions(trace[p], "VMCLEAR") = {}
            /\ Positions(trace[p], "VMPTRLD") = {}
            /\ vmcs[p].revision_id = {}
            /\ current[p] = 0

\* setup has run with a null translation on a machine with a nonzero revision id
C10_Witness ==
    \E p \in Procs :
        /\ setup_pa[p] = 0 /\ pc[p] = "idle"
        /\ Positions(trace[p], "VMXON") # {}
        /\ get_vmcs_revision_id # {}

(***************************************************************************)
(* C11: after guest-state population on a loaded VMCS, reading the guest   *)
(* fields back gives what was taken from the source: RIP, RSP, RFLAGS, DR7 *)
(* and the six segment selectors are the context values unmodified, the    *)
(* link pointer is the all-ones 64-bit value, and the population writes    *)
(* every guest field once, so that no write overwrites an earlier one.     *)
(***************************************************************************)
\* guest population has run on a processor with a current VMCS
GuestWritten(p) ==
    /\ current[p] # 0
    /\ \E i \in Positions(CallTrace(p), "VMWRITE") :
           /\ CallTrace(p)[i].field = "guest::LINK_PTR_FULL"
           /\ CallTrace(p)[i].ok

\* the positions of the call's trace that write a guest field
GuestWritePositions(p) ==
    {i \in Positions(CallTrace(p), "VMWRITE") : CallTrace(p)[i].field \in GuestFields}

C11_GuestReadBack ==
    \A p \in Procs :
        GuestWritten(p) =>
            /\ Vmread(p, "guest::RIP") = context[p].Rip
            /\ Vmread(p, "guest::RSP") = context[p].Rsp
            /\ Vmread(p, "guest::RFLAGS") = context[p].EFlags
            /\ Vmread(p, "guest::DR7") = context[p].Dr7
            /\ Vmread(p, "guest::CS_SELECTOR") = Bits(context[p].SegCs)
            /\ Vmread(p, "guest::SS_SELECTOR") = Bits(context[p].SegSs)
            /\ Vmread(p, "guest::DS_SELECTOR") = Bits(context[p].SegDs)
            /\ Vmread(p, "guest::ES_SELECTOR") = Bits(context[p].SegEs)
            /\ Vmread(p, "guest::FS_SELECTOR") = Bits(context[p].SegFs)
            /\ Vmread(p, "guest::GS_SELECTOR") = Bits(context[p].SegGs)
            /\ Vmread(p, "guest::LINK_PTR_FULL") = 0 .. 63
            /\ Vmread(p, "guest::CR3") = hw.cr3
            \* every field of the guest-state dump is written, and only once
            /\ {CallTrace(p)[i].field : i \in GuestWritePositions(p)} = GuestFields
            /\ Cardinality(GuestWritePositions(p)) = Cardinality(GuestFields)

\* the fixture RIP=0x1000, RSP=0x2000, CR3=0x3000 reads back from a loaded VMCS
C11_Witness ==
    \E p \in Procs :
        /\ GuestWritten(p)
        /\ Vmread(p, "guest::RIP") = {12}
        /\ Vmread(p, "guest::RSP") = {13}
        /\ Vmread(p, "guest::CR3") = {12, 13}

(***************************************************************************)
(* C12: host-state population leaves the host RSP and host RIP fields of   *)
(* every VMCS unchanged, for each context and machine: none of its writes  *)
(* targets either field.                                                   *)
(***************************************************************************)
C12_HostPopulationSkipsRspRip ==
    [][\A p \in Procs :
          (pc[p] = "host_state" /\ pc'[p] # pc[p]) =>
              /\ \A q \in Procs :
                     /\ vmcs'[q].fields["host::RSP"] = vmcs[q].fields["host::RSP"]
                     /\ vmcs'[q].fields["host::RIP"] = vmcs[q].fields["host::RIP"]
              /\ \A i \in (Len(trace[p]) + 1) .. Len(trace'[p]) :
                     trace'[p][i].field \notin {"host::RSP", "host::RIP"}
              /\ Len(trace'[p]) > Len(trace[p])]_vars

\* host population has written a loaded VMCS whose host RSP and RIP are still zero
C12_Witness ==
    \E p \in Procs :
        /\ pc[p] = "controls" /\ current[p] # 0
        /\ Vmread(p, "host::CR0") # {}
        /\ Vmread(p, "host::GDTR_BASE") # {}
        /\ Vmread(p, "host::RSP") = {}
        /\ Vmread(p, "host::RIP") = {}

(***************************************************************************)
(* C13: after a successful Vmcs::setup the region's revision identifier is *)
(* the low 32 bits of the reported IA32_VMX_BASIC with bit 31 cleared, for *)
(* every reported value, and the region already holds it when VMCLEAR is   *)
(* issued.                                                                 *)
(***************************************************************************)
\* the reported revision identifier with the shadow-VMCS bit cleared
ReportedRevision == (hw.vmx_basic \cap (0 .. 31)) \ {31}

C13_RevisionIdentifier ==
    \A p \in Procs :
        /\ (setup_ret[p] = "Ok") => vmcs[p].revision_id = ReportedRevision
        /\ (Positions(trace[p], "VMCLEAR") # {}) =>
               rev_at_clear[p] = <<ReportedRevision>>

\* setup succeeded on a machine that reports bit 31 set
C13_Witness ==
    \E p \in Procs :
        /\ setup_ret[p] = "Ok" /\ 31 \in hw.vmx_basic
        /\ Positions(trace[p], "VMCLEAR") # {}
        /\ vmcs[p].revision_id = {0}

(***************************************************************************)
(* C14: over any sequence of virtualize_cpu calls on one Vcpu, whatever    *)
(* each instruction's outcome, launch_vm is invoked at most once and       *)
(* is_virtualized never goes from true back to false.                      *)
(***************************************************************************)
C14_LaunchOnceFlagMonotone ==
    /\ [](\A p \in Procs : Cardinality(Positions(trace[p], "VMLAUNCH")) <= 1)
    /\ [][\A p \in Procs : is_virtualized[p] => is_virtualized'[p]]_vars

\* a Vcpu that launched once has been called again and is still virtualized
C14_Witness ==
    \E p \in Procs :
        /\ calls[p] >= 2 /\ pc[p] = "idle" /\ is_virtualized[p]
        /\ Cardinality(Positions(trace[p], "VMLAUNCH")) = 1
        /\ ~trace[p][Len(trace[p])].ok

====
